---- MODULE Spec2Model ----
(***************************************************************************)
(* State-machine model of wrappers.RenderRerun (src/wrappers/__init__.py): *)
(* a gymnasium wrapper that forwards reset/step/close to the wrapped       *)
(* environment and logs the steps of selected episodes to Rerun recording  *)
(* streams, building one blueprint tab per logged episode.                 *)
(*                                                                         *)
(* The wrapped environment and the Rerun SDK are external: the environment *)
(* returns (or raises) nondeterministically, a recording stream is         *)
(* modelled by what the wrapper writes to it.                              *)
(***************************************************************************)
EXTENDS Integers, Sequences, FiniteSets, TLC

VARIABLES
    pc,              \* "new" | "ready" | "failed" | "closed": position of the caller
    env_render_mode, \* env.render_mode of the wrapped environment
    episode,         \* self.episode
    frame,           \* self.frame
    skip_episodes,   \* self.skip_episodes
    viewer,          \* self.viewer
    recs,            \* self.recs: sequence of recording streams
    episode_names,   \* self.episode_names
    tabs,            \* self.tabs
    created,         \* recording streams constructed so far
    saved,           \* file the file stream was told to save to (NoFile if none)
    spawned,         \* number of viewer_rec.spawn() calls
    shown,           \* number of viewer_rec.notebook_show() calls
    written,         \* per stream: entries logged during the most recent call
    blueprint,       \* per stream: the most recent blueprint sent to it
    disconnects,     \* per stream: sequence of disconnect() outcomes
    envCloses,       \* number of env.close() calls
    call,            \* the most recent wrapper call and what it did
    history          \* counts of completed calls (observation only)

vars == <<pc, env_render_mode, episode, frame, skip_episodes,
          viewer, recs, episode_names, tabs, created, saved, spawned, shown,
          written, blueprint, disconnects, envCloses, call, history>>

----------------------------------------------------------------------------
(* Bounds of the exploration. *)

MaxEpisode == 4
MaxFrame == 2

(* Values the caller and the environment may supply. *)

None == <<"None">>

RgbArray == <<"r","g","b","_","a","r","r","a","y">>
ListSuffix == <<"_","l","i","s","t">>
RerunSuffix == <<"_","r","e","r","u","n">>
RenderModes == { None, RgbArray, RgbArray \o ListSuffix,
                 <<"l","i","s","t">>, ListSuffix }

Filenames == { "None", "", "example.rrd" }
Viewers == { "False", "script", "notebook" }
SkipValues == { 0, 1, 3 }
Streams == { "file", "viewer" }

\* What the environment may return: reset gives (observation, info), step gives
\* (observation, reward, terminated, truncated, info), render gives a frame.
\* A step case pairs the action given with the output the environment returns;
\* the cases cover both values of each flag, of the reward and of the action.
ResetOutputs == { <<0, "info">>, <<1, "info">> }
StepCases == { <<0, <<0, -1, FALSE, FALSE, "info">> >>,
               <<1, <<1,  1, TRUE,  FALSE, "info">> >>,
               <<0, <<1,  1, FALSE, TRUE,  "info">> >>,
               <<1, <<0, -1, TRUE,  TRUE,  "info">> >> }
StepOutcomes == { "returns", "env_raises", "render_raises" }
RenderedFrame == "rgb_frame"

----------------------------------------------------------------------------
(* Python helpers. *)

\* bool(x) for the argument values above: None, "" and False are falsy.
Truthy(x) == x \notin { "None", "", "False" }

\* str.endswith
EndsWith(s, suffix) ==
    /\ Len(s) >= Len(suffix)
    /\ SubSeq(s, Len(s) - Len(suffix) + 1, Len(s)) = suffix

RECURSIVE Pow10(_)
Pow10(k) == IF k = 0 THEN 1 ELSE 10 * Pow10(k - 1)

RECURSIVE NumDigits(_)
NumDigits(n) == IF n < 10 THEN 1 ELSE 1 + NumDigits(n \div 10)

\* format(n, "05"): decimal digits, zero-padded on the left to width 5.
ZeroPad5(n) ==
    LET w == IF NumDigits(n) > 5 THEN NumDigits(n) ELSE 5
    IN  [i \in 1..w |-> (n \div Pow10(w - i)) % 10]

----------------------------------------------------------------------------
(* RenderRerun: pure parts of the methods. *)

JpegQuality == 95

\* Variant: only the first assertion.
RenderModeAcceptedNotNone(mode) == mode # None

\* __init__, the two assertions on env.render_mode.
RenderModeAccepted(mode) ==
    /\ mode # None
    /\ ~EndsWith(mode, ListSuffix)

\* __init__: self.recs after the file stream (if filename) and the viewer
\* stream have been appended.
OpenedRecs(filename) ==
    (IF Truthy(filename) THEN <<"file">> ELSE <<>>) \o <<"viewer">>

\* render(): the viewer calls made, added to the counts c = [spawned, shown].
RenderCall(v, c) ==
    IF v = "script" THEN [c EXCEPT !.spawned = @ + 1]
    ELSE IF v = "notebook" THEN [c EXCEPT !.shown = @ + 1]
    ELSE c

\* The render_mode property.
RenderModeName(mode) == mode \o RerunSuffix

\* Variant: the remainder compared with 0 instead of 1.
ShouldLogOnMultiples(ep, skip) ==
    \/ skip \in {0, 1}
    \/ ep % skip = 0

\* step: the condition under which logger is called.
ShouldLog(ep, skip) ==
    \/ skip \in {0, 1}
    \/ ep % skip = 1

\* step: self.frame += 1
FrameAfterStep(f) == f + 1

\* Variant: truncated folded into terminated (the pre-0.26 "done" flag).
StepReturnMergedDone(output) ==
    <<output[1], output[2], output[3] \/ output[4], output[4], output[5]>>

\* step: return output
StepReturn(output) == output

\* reset: self.episode += 1
EpisodeAfterReset(ep) == ep + 1

\* Variant: the frame counter is left as it is.
FrameKeptOnReset(f) == f

\* reset: self.frame = 0
FrameAfterReset(f) == 0

\* reset: return output
ResetReturn(output) == output

\* logger: episode_name = f"episode{self.episode:05}"
EpisodeName(ep) == <<"episode">> \o ZeroPad5(ep)

TextLog(text) == <<"TextLog", text>>
CompressedImage(img) == <<"Image", img, "jpeg", JpegQuality>>
LogCall(name, leaf, payload) == <<"log", <<name, leaf>>, payload>>

\* Variant: the done marker is logged whatever terminated is.
LogEntriesDoneAlways(name, f, output, action, img) ==
    <<  <<"set_time", "frame", f>>,
        LogCall(name, "reward", TextLog(ToString(output[2]))),
        LogCall(name, "done", TextLog("DONE!")) >>
    \o (IF output[4] THEN << LogCall(name, "interrupted", TextLog("Interrupted")) >>
                     ELSE <<>>)
    \o << LogCall(name, "action", TextLog(ToString(action))),
          LogCall(name, "frames", CompressedImage(img)) >>

\* logger: what one pass of the loop body sends to a stream, in order.
LogEntries(name, f, output, action, img) ==
    <<  <<"set_time", "frame", f>>,
        LogCall(name, "reward", TextLog(ToString(output[2]))) >>
    \o (IF output[3] THEN << LogCall(name, "done", TextLog("DONE!")) >> ELSE <<>>)
    \o (IF output[4] THEN << LogCall(name, "interrupted", TextLog("Interrupted")) >>
                     ELSE <<>>)
    \o << LogCall(name, "action", TextLog(ToString(action))),
          LogCall(name, "frames", CompressedImage(img)) >>

\* update_blueprint: the tab of one episode.
Tab(name) ==
    [ name |-> name,
      contents |-> << [view |-> "Spatial2DView", name |-> "frames",
                       origin |-> <<name, "frames">>],
                      << [view |-> "TextLogView", name |-> "action",
                          origin |-> <<name, "action">>],
                         [view |-> "TextLogView", name |-> "reward",
                          origin |-> <<name, "reward">>] >> >> ]

\* update_blueprint: the blueprint built from the accumulated tabs.
Blueprint(ts) ==
    [ tabs |-> ts, blueprint_panel |-> "collapsed",
      selection_panel |-> "collapsed", time_panel |-> "expanded" ]

NoBlueprint == Blueprint(<<>>)

InRecs(s) == \E i \in 1..Len(recs) : recs[i] = s

\* Variant: no test of episode_names.
UpdateBlueprintUnguarded(st, name) ==
    LET newTabs == Append(st.tabs, Tab(name))
    IN  [st EXCEPT !.names = @ \cup {name},
                   !.tabs = newTabs,
                   !.blueprint = [s \in Streams |->
                                    IF InRecs(s) THEN Blueprint(newTabs)
                                                 ELSE st.blueprint[s]]]

\* update_blueprint(episode_name) on the state st = [written, names, tabs, blueprint].
UpdateBlueprint(st, name) ==
    IF name \in st.names
    THEN st
    ELSE LET newTabs == Append(st.tabs, Tab(name))
         IN  [st EXCEPT !.names = @ \cup {name},
                        !.tabs = newTabs,
                        !.blueprint = [s \in Streams |->
                                         IF InRecs(s) THEN Blueprint(newTabs)
                                                      ELSE st.blueprint[s]]]

\* logger: the loop over self.recs, from position i on.
RECURSIVE LoggerLoop(_, _, _, _)
LoggerLoop(i, st, name, entries) ==
    IF i > Len(recs)
    THEN st
    ELSE LoggerLoop(i + 1,
                    UpdateBlueprint(
                        [st EXCEPT !.written[recs[i]] = @ \o entries], name),
                    name, entries)

NothingWritten == [s \in Streams |-> <<>>]

\* Variant: the frame is rendered after the loop has logged the text entries.
LoggerRendersLast(output, action, renderRaises, img) ==
    LET st0 == [ raised |-> renderRaises, written |-> NothingWritten,
                 names |-> episode_names, tabs |-> tabs, blueprint |-> blueprint ]
    IN  LoggerLoop(1, st0, EpisodeName(episode),
                   LogEntries(EpisodeName(episode), frame, output, action, img))

\* logger(output, action): super().render() is evaluated before the loop; if it
\* raises, the loop never runs.
Logger(output, action, renderRaises, img) ==
    LET st0 == [ raised |-> renderRaises, written |-> NothingWritten,
                 names |-> episode_names, tabs |-> tabs, blueprint |-> blueprint ]
    IN  IF renderRaises
        THEN st0
        ELSE LoggerLoop(1, st0, EpisodeName(episode),
                        LogEntries(EpisodeName(episode), frame, output, action, img))

\* Variant: no try/except around s.disconnect().
TryDisconnectUncaught(st, s, failing) ==
    [ log |-> Append(st.log, <<s, IF s \in failing THEN "raised" ELSE "ok">>),
      raised |-> s \in failing ]

\* close: one pass of the loop body, try: s.disconnect() except Exception: pass.
\* failing is the set of streams whose disconnect() raises.
TryDisconnect(st, s, failing) ==
    [ log |-> Append(st.log, <<s, IF s \in failing THEN "raised" ELSE "ok">>),
      raised |-> FALSE ]

\* close: the loop over self.recs, from position i on; an exception that
\* escapes the loop body ends the loop.
RECURSIVE DisconnectAll(_, _, _)
DisconnectAll(i, st, failing) ==
    IF i > Len(recs) \/ st.raised
    THEN st
    ELSE DisconnectAll(i + 1, TryDisconnect(st, recs[i], failing), failing)

----------------------------------------------------------------------------
(* The most recent wrapper call, and counts of the calls that returned. *)

\* op: the method called; arg: its argument; envError: the environment method
\* that raised during the call ("none" if none did); raised: whether the call
\* raised to its caller; envCalls: calls of the environment's method of the
\* same name; envOut: what that method returned; ret: what the call returned;
\* loggerCalls: calls of logger.
Call(op, arg, envError, raised, envCalls, envOut, ret, loggerCalls) ==
    [ op |-> op, arg |-> arg, envError |-> envError, raised |-> raised,
      envCalls |-> envCalls, envOut |-> envOut, ret |-> ret,
      loggerCalls |-> loggerCalls ]

\* resets: reset calls that returned; steps: step calls that returned since the
\* last such reset; unlogged: step calls that returned without calling logger;
\* loggedEpisodes: episodes in which logger has completed.
NoHistory ==
    [ resets |-> 0, steps |-> 0, unlogged |-> 0, loggedEpisodes |-> {} ]

----------------------------------------------------------------------------
(* Initial state: the environment exists, the wrapper is not yet built. *)

Init ==
    /\ pc = "new"
    /\ env_render_mode \in RenderModes
    /\ episode = 0
    /\ frame = 0
    /\ skip_episodes = 0
    /\ viewer = "False"
    /\ recs = <<>>
    /\ episode_names = {}
    /\ tabs = <<>>
    /\ created = {}
    /\ saved = "None"
    /\ spawned = 0
    /\ shown = 0
    /\ written = NothingWritten
    /\ blueprint = [s \in Streams |-> NoBlueprint]
    /\ disconnects = <<>>
    /\ envCloses = 0
    /\ call = Call("none", 0, "none", FALSE, 0, <<>>, <<>>, 0)
    /\ history = NoHistory

\* RenderRerun(env, filename, skip_episodes, viewer)
Construct(filename, skip, v) ==
    /\ pc = "new"
    /\ IF ~RenderModeAccepted(env_render_mode)
       THEN /\ pc' = "failed"
            /\ call' = Call("init", 0, "none", TRUE, 0, <<>>, <<>>, 0)
            /\ UNCHANGED <<episode, frame, skip_episodes, viewer, recs,
                           episode_names, tabs, created, saved, spawned, shown>>
       ELSE LET shows == IF Truthy(v)
                         THEN RenderCall(v, [spawned |-> spawned, shown |-> shown])
                         ELSE [spawned |-> spawned, shown |-> shown]
            IN  /\ pc' = "ready"
                /\ call' = Call("init", 0, "none", FALSE, 0, <<>>, <<>>, 0)
                /\ episode' = 0
                /\ frame' = 0
                /\ skip_episodes' = skip
                /\ viewer' = v
                /\ recs' = OpenedRecs(filename)
                /\ created' = { OpenedRecs(filename)[i] :
                                  i \in 1..Len(OpenedRecs(filename)) }
                /\ saved' = IF Truthy(filename) THEN filename ELSE "None"
                /\ spawned' = shows.spawned
                /\ shown' = shows.shown
                /\ episode_names' = {}
                /\ tabs' = <<>>
    /\ UNCHANGED <<env_render_mode, written, blueprint, disconnects, envCloses,
                   history>>

\* reset(seed, options); the environment's reset returns output or raises.
Reset(output, envRaises) ==
    /\ pc = "ready"
    /\ episode < MaxEpisode
    /\ written' = NothingWritten
    /\ IF envRaises
       THEN /\ call' = Call("reset", 0, "reset", TRUE, 1, <<>>, <<>>, 0)
            /\ UNCHANGED <<episode, frame, history>>
       ELSE /\ episode' = EpisodeAfterReset(episode)
            /\ frame' = FrameAfterReset(frame)
            /\ call' = Call("reset", 0, "none", FALSE, 1, output, ResetReturn(output), 0)
            /\ history' = [history EXCEPT !.resets = @ + 1, !.steps = 0]
    /\ UNCHANGED <<pc, env_render_mode, skip_episodes, viewer, recs,
                   episode_names, tabs, created, saved, spawned, shown, blueprint,
                   disconnects, envCloses>>

\* step(action); the environment's step returns output or raises, and its
\* render (called by logger) returns RenderedFrame or raises.
Step(action, output, outcome) ==
    /\ pc = "ready"
    /\ frame < MaxFrame
    /\ IF outcome = "env_raises"
       THEN /\ call' = Call("step", action, "step", TRUE, 1, <<>>, <<>>, 0)
            /\ written' = NothingWritten
            /\ UNCHANGED <<frame, episode_names, tabs, blueprint, history>>
       ELSE IF ShouldLog(episode, skip_episodes)
       THEN LET st == Logger(output, action, outcome = "render_raises", RenderedFrame)
            IN  /\ written' = st.written
                /\ episode_names' = st.names
                /\ tabs' = st.tabs
                /\ blueprint' = st.blueprint
                /\ IF st.raised
                   THEN /\ call' = Call("step", action, "render", TRUE, 1, output, <<>>, 1)
                        /\ UNCHANGED <<frame, history>>
                   ELSE /\ frame' = FrameAfterStep(frame)
                        /\ call' = Call("step", action, "none", FALSE, 1, output,
                                         StepReturn(output), 1)
                        /\ history' =
                              [history EXCEPT
                                 !.steps = @ + 1,
                                 !.loggedEpisodes = @ \cup {episode}]
       ELSE /\ frame' = FrameAfterStep(frame)
            /\ written' = NothingWritten
            /\ call' = Call("step", action, "none", FALSE, 1, output, StepReturn(output), 0)
            /\ history' = [history EXCEPT !.steps = @ + 1, !.unlogged = @ + 1]
            /\ UNCHANGED <<episode_names, tabs, blueprint>>
    /\ UNCHANGED <<pc, env_render_mode, episode, skip_episodes, viewer,
                   recs, created, saved, spawned, shown, disconnects, envCloses>>

\* close(); failing is the set of streams whose disconnect() raises, and the
\* environment's close returns or raises.
Close(failing, envRaises) ==
    /\ pc = "ready"
    /\ LET st == DisconnectAll(1, [log |-> disconnects, raised |-> FALSE], failing)
       IN  /\ disconnects' = st.log
           /\ IF st.raised
              THEN /\ call' = Call("close", 0, "none", TRUE, 0, <<>>, <<>>, 0)
                   /\ UNCHANGED envCloses
              ELSE /\ call' = Call("close", 0, IF envRaises THEN "close" ELSE "none", envRaises,
                                 1, <<>>, <<>>, 0)
                   /\ envCloses' = envCloses + 1
    /\ pc' = "closed"
    /\ written' = NothingWritten
    /\ UNCHANGED <<env_render_mode, episode, frame, skip_episodes,
                   viewer, recs, episode_names, tabs, created, saved, spawned, shown,
                   blueprint, history>>

Next ==
    \/ \E f \in Filenames, k \in SkipValues, v \in Viewers : Construct(f, k, v)
    \/ \E o \in ResetOutputs, e \in BOOLEAN : Reset(o, e)
    \/ \E c \in StepCases, outcome \in StepOutcomes : Step(c[1], c[2], outcome)
    \/ \E failing \in SUBSET created, e \in BOOLEAN : Close(failing, e)

Spec == Init /\ [][Next]_vars

----------------------------------------------------------------------------
(* Properties. *)

EpisodeRange == 205

Built == pc \in {"ready", "closed"}

\* name is the label of episode ep: "episode" followed by the five decimal
\* digits of ep.
IsLabel(name, ep) ==
    /\ Len(name) = 6
    /\ name[1] = "episode"
    /\ \A i \in 2..6 : name[i] \in 0..9
    /\ name[2] * 10000 + name[3] * 1000 + name[4] * 100 + name[5] * 10 + name[6] = ep

NoDuplicates(seq) ==
    \A i, j \in 1..Len(seq) : seq[i] = seq[j] => i = j

\* Number of entries of w logged at path <<name, leaf>> with the given payload.
CountLog(w, name, leaf, payload) ==
    Cardinality({ i \in 1..Len(w) :
                    /\ w[i][1] = "log"
                    /\ w[i][2] = <<name, leaf>>
                    /\ w[i][3] = payload })

\* C1: reset and step call the environment's method exactly once and, when
\* they return, return exactly what that method returned, logged or not.
C1_PassThrough ==
    call.op \in {"reset", "step"} =>
        /\ call.envCalls = 1
        /\ ~call.raised => call.ret = call.envOut

C1_Witness ==
    /\ call.op = "step"
    /\ ~call.raised
    /\ call.loggerCalls = 1
    /\ call.envOut[4]
    /\ call.ret = call.envOut

\* C2: the episode counter is the number of reset calls that have returned and
\* the frame counter the number of step calls that have returned since the
\* last of them (since construction if there was none), logged or not.
C2_CountersCountCalls ==
    Built =>
        /\ episode = history.resets
        /\ frame = history.steps

C2_Witness ==
    /\ episode = 2
    /\ frame = 1
    /\ call.op = "step"
    /\ call.loggerCalls = 0
    /\ history.resets = 2

\* C3: a step whose environment call returned calls logger once if the episode
\* is eligible and not at all otherwise; with skip-interval 0 or 1 every
\* episode is eligible, so every returned step was logged; with skip-interval
\* n >= 2 the eligible episodes are 1, n+1, 2n+1, ... (n = 100: 1, 101, 201;
\* n = 4: 1, 5, 9, ...).
C3_LoggedIffEligible ==
    /\ (call.op = "step" /\ call.envError # "step") =>
          call.loggerCalls =
             IF \/ skip_episodes \in {0, 1}
                \/ \E k \in 0..episode : episode = k * skip_episodes + 1
             THEN 1 ELSE 0
    /\ (Built /\ skip_episodes \in {0, 1}) => history.unlogged = 0
    /\ pc = "new" =>    \* the predicate itself; it reads no state
         \A ep \in 0..EpisodeRange :
          /\ ShouldLog(ep, 100) <=> ep \in {1, 101, 201}
          /\ ShouldLog(ep, 4) <=> \E k \in 0..ep : ep = 4 * k + 1
          /\ ShouldLog(ep, 0)
          /\ ShouldLog(ep, 1)

C3_Witness ==
    /\ call.op = "step"
    /\ skip_episodes = 3
    /\ episode = 4
    /\ frame = 2
    /\ call.loggerCalls = 1

\* C4: a wrapper is never built with both an output file and a viewer mode:
\* construction with both fails.
C4_FileAndViewerRejected ==
    ~(Built /\ saved # "None" /\ viewer \in {"script", "notebook"})

\* C5: on a render mode that is None or ends in "_list" construction fails
\* with no stream created, saved or shown; on any other it succeeds and
\* render_mode is the environment's render mode followed by "_rerun".
C5_RenderModeChecked ==
    pc # "new" =>
        IF env_render_mode \in { None, ListSuffix, RgbArray \o ListSuffix }
        THEN /\ pc = "failed"
             /\ call.raised
             /\ created = {}
             /\ saved = "None"
             /\ spawned = 0
             /\ shown = 0
        ELSE /\ Built
             /\ LET m == RenderModeName(env_render_mode)
                    n == Len(env_render_mode)
                IN  /\ Len(m) = n + 6
                    /\ SubSeq(m, 1, n) = env_render_mode
                    /\ SubSeq(m, n + 1, n + 6) = <<"_", "r", "e", "r", "u", "n">>

C5_Witness ==
    /\ pc = "failed"
    /\ env_render_mode = RgbArray \o ListSuffix
    /\ created = {}

\* C6: close attempts the disconnect of every stream of recs once, in order,
\* whether or not an earlier one raised; a disconnect failure does not reach
\* the caller; the environment's close is then called exactly once.
C6_CloseDisconnectsAll ==
    pc = "closed" =>
        /\ Len(disconnects) = Len(recs)
        /\ \A i \in 1..Len(recs) : disconnects[i][1] = recs[i]
        /\ envCloses = 1
        /\ call.envCalls = 1
        /\ call.raised <=> call.envError = "close"

C6_Witness ==
    /\ pc = "closed"
    /\ Len(recs) = 2
    /\ disconnects[1][2] = "raised"
    /\ disconnects[2][2] = "ok"
    /\ ~call.raised
    /\ envCloses = 1

\* The i-th smallest episode in which logger has completed.
KthLogged(i) ==
    CHOOSE e \in history.loggedEpisodes :
        Cardinality({ x \in history.loggedEpisodes : x <= e }) = i

\* C7: the layout holds exactly one tab per logged episode, in the order the
\* episodes were first logged, and none for an episode never logged; every
\* stream of recs holds that layout once a tab exists, and no layout sent has
\* two tabs of the same episode.
C7_OneTabPerLoggedEpisode ==
    /\ Len(tabs) = Cardinality(history.loggedEpisodes)
    /\ \A i \in 1..Len(tabs) : IsLabel(tabs[i].name, KthLogged(i))
    /\ episode_names = { tabs[i].name : i \in 1..Len(tabs) }
    /\ \A s \in Streams :
          /\ NoDuplicates([i \in 1..Len(blueprint[s].tabs) |->
                              blueprint[s].tabs[i].name])
          /\ blueprint[s].tabs = IF InRecs(s) THEN tabs ELSE <<>>

C7_Witness ==
    /\ Len(tabs) = 2
    /\ Len(recs) = 2
    /\ frame = 2
    /\ call.op = "step"
    /\ call.loggerCalls = 1
    /\ skip_episodes = 3

\* C8: the file stream is in recs iff a file was given, the viewer stream iff
\* a viewer mode was requested; with neither, recs is empty and nothing is
\* written to any stream.
C8_SinksFollowConfiguration ==
    Built =>
        /\ InRecs("file") <=> saved # "None"
        /\ InRecs("viewer") <=> viewer \in {"script", "notebook"}
        /\ (saved = "None" /\ viewer = "False") =>
              /\ recs = <<>>
              /\ written = NothingWritten

\* C9: after a logged step every stream of recs has received the same entries:
\* the "frame" timeline set to the number of steps returned before this one in
\* the episode, then, under the episode's zero-padded label, one reward, one
\* action and one frames entry, a done entry iff terminated and an interrupted
\* entry iff truncated; a stream outside recs has received nothing.
C9_LoggedStepEntries ==
    (call.op = "step" /\ call.loggerCalls = 1 /\ ~call.raised) =>
        \A s \in Streams :
            IF InRecs(s)
            THEN LET w == written[s]
                     out == call.envOut
                     name == w[2][2][1]
                     done == IF out[3] THEN 1 ELSE 0
                     interrupted == IF out[4] THEN 1 ELSE 0
                 IN  /\ Len(w) = 4 + done + interrupted
                     /\ w[1] = <<"set_time", "frame", history.steps - 1>>
                     /\ history.steps - 1 = frame - 1
                     /\ IsLabel(name, episode)
                     /\ CountLog(w, name, "reward",
                                 <<"TextLog", ToString(out[2])>>) = 1
                     /\ CountLog(w, name, "action",
                                 <<"TextLog", ToString(call.arg)>>) = 1
                     /\ CountLog(w, name, "frames",
                                 <<"Image", RenderedFrame, "jpeg", 95>>) = 1
                     /\ CountLog(w, name, "done", <<"TextLog", "DONE!">>) = done
                     /\ CountLog(w, name, "interrupted",
                                 <<"TextLog", "Interrupted">>) = interrupted
            ELSE written[s] = <<>>

C9_Witness ==
    /\ call.op = "step"
    /\ call.loggerCalls = 1
    /\ ~call.raised
    /\ Len(recs) = 2
    /\ call.envOut[3]
    /\ ~call.envOut[4]
    /\ frame = 2
    /\ Len(written["file"]) = 5
    /\ written["file"] = written["viewer"]

\* C10: when the environment's reset, step or render raises, the call raises
\* after a single call of the environment's method, and the wrapper is left as
\* it was: counters, layout and blueprints unchanged, nothing written.
C10_FailedCallChangesNothing ==
    [][ (call'.op \in {"reset", "step"} /\ call'.envError # "none") =>
            /\ call'.raised
            /\ call'.envCalls = 1
            /\ episode' = episode
            /\ frame' = frame
            /\ episode_names' = episode_names
            /\ tabs' = tabs
            /\ blueprint' = blueprint
            /\ written' = NothingWritten
            /\ history' = history ]_vars

C10_Witness ==
    /\ call.op = "step"
    /\ call.envError = "render"
    /\ call.raised
    /\ call.loggerCalls = 1
    /\ frame = 1
    /\ Len(tabs) = 1

====
